---- MODULE Spec2Model ----
(***************************************************************************)
(* A model of the monads library: the schema/codec engine of               *)
(* src/validation.ts, the Option type of src/index.ts and the              *)
(* ReaderTaskEither effect wrapper of src/task.ts.                         *)
(*                                                                         *)
(* JavaScript values are records tagged by k; strings that the code        *)
(* builds with template literals are sequences of tokens (Text), so that   *)
(* what a message contains can be inspected.                               *)
(***************************************************************************)
EXTENDS Integers, Sequences, FiniteSets, TLC

VARIABLES
    schema,     \* the schema under use
    input,      \* the value handed to decode / make
    phase,      \* "ready", then "decoded", "made" or "encoded"
    out,        \* what the last decode or make produced
    calls,      \* the decode invocations the last decode made
    encoded     \* what encode produced from the decoded value

VARIABLES
    option,     \* the Option last produced
    lastCall    \* the Option operation that produced it, with its arguments

VARIABLES
    effect,     \* the ReaderTaskEither under execution
    runtime,    \* the runtime handed to fork
    pc,         \* "built", "forked" once fork has been called, "done" once its promise settles
    stack,      \* the async functions suspended at their await, outermost first
    settled,    \* the settled promise the innermost suspended function awaits, if any
    promise,    \* the promise fork returned
    log         \* what has happened so far, in order

validationVars == <<schema, input, phase, out, calls, encoded>>
optionVars == <<option, lastCall>>
taskVars == <<effect, runtime, pc, stack, settled, promise, log>>

vars == <<validationVars, optionVars, taskVars>>

(***************************************************************************)
(* Bounds                                                                  *)
(***************************************************************************)
\* longest array drawn as an input
MaxLen == 3

(***************************************************************************)
(* JavaScript values                                                       *)
(***************************************************************************)
undefined == [k |-> "undefined"]
null == [k |-> "null"]
Bool(b) == [k |-> "boolean", b |-> b]
Num(n) == [k |-> "number", n |-> n]
Str(s) == [k |-> "string", s |-> s]
BigInt == [k |-> "bigint"]
Obj(f) == [k |-> "object", f |-> f]
Arr(e) == [k |-> "array", e |-> e]
\* an Error object, as built by new Error(message) or raised by the runtime
ErrorObj(name, message) == [k |-> "error", name |-> name, message |-> message]

NoProps == [x \in {} |-> undefined]

\* the typeof operator
TypeOf(v) ==
    CASE v.k = "undefined" -> "undefined"
      [] v.k = "boolean" -> "boolean"
      [] v.k = "number" -> "number"
      [] v.k = "string" -> "string"
      [] v.k = "bigint" -> "bigint"
      [] OTHER -> "object"

\* obj[key] for a string key that is neither an index nor "length"
Get(obj, key) ==
    IF obj.k = "object" /\ key \in DOMAIN obj.f THEN obj.f[key] ELSE undefined

\* Object.prototype.hasOwnProperty.call(obj, key)
HasOwn(obj, key) == obj.k = "object" /\ key \in DOMAIN obj.f

Range(seq) == {seq[i] : i \in 1..Len(seq)}
Front(seq) == SubSeq(seq, 1, Len(seq) - 1)
Last(seq) == seq[Len(seq)]

\* the order in which the keys of an object literal are written here
KeyOrder == <<"a", "b", "z">>

(***************************************************************************)
(* Text: strings as token sequences                                        *)
(***************************************************************************)
RECURSIVE Join(_, _)
\* Array.prototype.join over an array of Texts
Join(texts, sep) ==
    IF Len(texts) = 0 THEN <<>>
    ELSE IF Len(texts) = 1 THEN texts[1]
    ELSE texts[1] \o <<sep>> \o Join(Tail(texts), sep)

RECURSIVE Flatten(_)
\* the string a Text stands for
Flatten(text) == IF Len(text) = 0 THEN "" ELSE text[1] \o Flatten(Tail(text))

\* text contains sub as a run of consecutive tokens
Contains(text, sub) ==
    \E i \in 0..(Len(text) - Len(sub)) :
        \A j \in 1..Len(sub) : text[i + j] = sub[j]

RECURSIVE JSONstringify(_)
\* JSON.stringify(v) as a template literal renders it: [ok, text], ok = FALSE
\* when it throws a TypeError (a BigInt anywhere in v)
JSONstringify(v) ==
    CASE v.k = "undefined" -> [ok |-> TRUE, text |-> <<"undefined">>]
      [] v.k = "null" -> [ok |-> TRUE, text |-> <<"null">>]
      [] v.k = "boolean" -> [ok |-> TRUE, text |-> <<IF v.b THEN "true" ELSE "false">>]
      [] v.k = "number" -> [ok |-> TRUE, text |-> <<ToString(v.n)>>]
      [] v.k = "string" -> [ok |-> TRUE, text |-> <<"\"" \o v.s \o "\"">>]
      [] v.k = "bigint" -> [ok |-> FALSE, text |-> <<>>]
      [] v.k = "array" ->
            LET parts == [i \in 1..Len(v.e) |->
                            IF v.e[i] = undefined
                            THEN [ok |-> TRUE, text |-> <<"null">>]
                            ELSE JSONstringify(v.e[i])]
            IN  [ok |-> \A i \in 1..Len(v.e) : parts[i].ok,
                 text |-> <<"[">> \o Join([i \in 1..Len(v.e) |-> parts[i].text], ",")
                          \o <<"]">>]
      [] v.k = "object" ->
            LET keys == SelectSeq(KeyOrder,
                            LAMBDA x : x \in DOMAIN v.f /\ v.f[x] # undefined)
                parts == [i \in 1..Len(keys) |-> JSONstringify(v.f[keys[i]])]
            IN  [ok |-> \A i \in 1..Len(keys) : parts[i].ok,
                 text |-> <<"{">>
                          \o Join([i \in 1..Len(keys) |->
                                    <<"\"" \o keys[i] \o "\":">> \o parts[i].text], ",")
                          \o <<"}">>]
      [] OTHER -> [ok |-> TRUE, text |-> <<"{}">>]

(***************************************************************************)
(* src/either.ts                                                           *)
(***************************************************************************)
Right(v) == [tag |-> "Right", right |-> v]
Left(v) == [tag |-> "Left", left |-> v]
isRight(e) == e.tag = "Right"
isLeft(e) == e.tag = "Left"

\* an exception leaving the call instead of a returned value
Throw(e) == [tag |-> "Throw", error |-> e]
isThrow(e) == e.tag = "Throw"

\* what JSON.stringify raises on a BigInt
StringifyTypeError == ErrorObj("TypeError", <<"Do not know how to serialize a BigInt">>)
\* what reading .message of null or undefined raises
NullMessageTypeError == ErrorObj("TypeError", <<"Cannot read properties of null">>)

\* (error as Error).message: [ok, text]; reading it off null/undefined throws,
\* off a value without the property gives undefined
MessageOf(e) ==
    IF e.k \in {"null", "undefined"} THEN [ok |-> FALSE, text |-> <<>>]
    ELSE IF e.k = "error" THEN [ok |-> TRUE, text |-> e.message]
    ELSE [ok |-> TRUE, text |-> <<"undefined">>]

(***************************************************************************)
(* The functions handed to schemas: guards, encoders, transformers         *)
(***************************************************************************)
\* the guards of the exported primitives, src/validation.ts 189-222
Guard(name, a) ==
    CASE name = "string" -> TypeOf(a) = "string"
      [] name = "number" -> TypeOf(a) = "number"
      [] name = "boolean" -> TypeOf(a) = "boolean"
      [] name = "true" -> TypeOf(a) = "boolean" /\ a = Bool(TRUE)
      [] name = "false" -> TypeOf(a) = "boolean" /\ a = Bool(FALSE)
      [] name = "null" -> a = null
      [] name = "undefined" -> a = undefined

\* String.prototype.toUpperCase on the strings of the model
UpperCase(s) == IF s = "x" THEN "X" ELSE s

\* a caller-supplied function applied to v: [ok, v] or [ok = FALSE, thrown]
Apply(fn, v) ==
    CASE fn = "identity" -> [ok |-> TRUE, v |-> v]
      [] fn = "toUpperCase" ->
            IF v.k = "string" THEN [ok |-> TRUE, v |-> Str(UpperCase(v.s))]
            ELSE [ok |-> FALSE,
                  thrown |-> ErrorObj("TypeError", <<"x.toUpperCase is not a function">>)]
      [] fn = "throwError" -> [ok |-> FALSE, thrown |-> ErrorObj("Error", <<"boom">>)]
      [] fn = "throwNull" -> [ok |-> FALSE, thrown |-> null]

(***************************************************************************)
(* Schemas, src/validation.ts                                              *)
(***************************************************************************)
makePrimitive(guard, typeName, encoder) ==
    [t |-> "prim", guard |-> guard, typeName |-> typeName, encoder |-> encoder]
Struct(keys, validators) == [t |-> "struct", keys |-> keys, validators |-> validators]
Literal(literal) == [t |-> "lit", literal |-> literal]
transform(sch, transformer, reverseTransformer) ==
    [t |-> "transform", schema |-> sch, transformer |-> transformer,
     reverseTransformer |-> reverseTransformer]
List(itemSchema) == [t |-> "list", itemSchema |-> itemSchema]

String == makePrimitive("string", "string", "identity")
Number == makePrimitive("number", "number", "identity")
Boolean == makePrimitive("boolean", "boolean", "identity")
True == makePrimitive("true", "true", "identity")
False == makePrimitive("false", "boolean", "identity")
Null == makePrimitive("null", "null", "identity")
Undefined == makePrimitive("undefined", "undefined", "identity")

\* err.path || []
PathOf(err) == IF "path" \in DOMAIN err THEN err.path ELSE <<>>

\* the segment appended to the nested path instead of prepended
PrefixedAppends(segment, err) ==
    [x \in DOMAIN err \cup {"path"} |->
        IF x = "path" THEN PathOf(err) \o <<segment>> ELSE err[x]]

\* { ...err, path: [segment, ...(err.path || [])] }
Prefixed(segment, err) ==
    [x \in DOMAIN err \cup {"path"} |->
        IF x = "path" THEN <<segment>> \o PathOf(err) ELSE err[x]]

PrefixAll(segment, errs) == [i \in 1..Len(errs) |-> Prefixed(segment, errs[i])]

\* a record of one decode invocation: the schema kind, where in the input, on what
Call(s, d) == [at |-> <<>>, t |-> s.t, d |-> d]
CallsUnder(segment, cs) == [i \in 1..Len(cs) |-> [cs[i] EXCEPT !.at = <<segment>> \o @]]

\* result[key] = v
SetProp(f, key, v) == [x \in DOMAIN f \cup {key} |-> IF x = key THEN v ELSE f[x]]

\* makePrimitive(...).decode
PrimitiveDecode(s, data) ==
    IF Guard(s.guard, data) THEN Right(data)
    ELSE Left(<<[code |-> "invalid_type",
                 message |-> <<"Expected ", s.typeName, ", received ", TypeOf(data)>>,
                 input |-> data]>>)

\* Literal(...).decode
LiteralDecode(s, data) ==
    IF data = s.literal THEN Right(s.literal)
    ELSE LET lit == JSONstringify(s.literal)
             got == JSONstringify(data)
         IN  IF ~lit.ok \/ ~got.ok THEN Throw(StringifyTypeError)
             ELSE Left(<<[code |-> "invalid_literal",
                          message |-> <<"Expected ">> \o lit.text
                                      \o <<", received ">> \o got.text,
                          input |-> data]>>)

RECURSIVE Decode(_, _)
RECURSIVE StructDecodeLoop(_, _, _, _)
RECURSIVE ListDecodeLoop(_, _, _, _)

\* the for-in loop of Struct.decode from the i-th declared key on;
\* acc = [result, errors, calls, thrown]
StructDecodeLoop(s, obj, i, acc) ==
    IF i > Len(s.keys) THEN acc
    ELSE LET key == s.keys[i]
             validator == s.validators[key]
             value == Get(obj, key)
         IN  IF value = undefined
             THEN StructDecodeLoop(s, obj, i + 1,
                    [acc EXCEPT !.errors = Append(@,
                        [path |-> <<key>>, code |-> "required",
                         message |-> <<"Required field ", key, " is missing">>,
                         input |-> undefined])])
             ELSE LET validation == Decode(validator, value)
                      seen == acc.calls \o CallsUnder(key, validation.calls)
                  IN  IF isThrow(validation.res)
                      THEN [acc EXCEPT !.calls = seen, !.thrown = validation.res]
                      ELSE IF isRight(validation.res)
                      THEN StructDecodeLoop(s, obj, i + 1,
                             [acc EXCEPT !.calls = seen,
                                !.result = SetProp(@, key, validation.res.right)])
                      ELSE StructDecodeLoop(s, obj, i + 1,
                             [acc EXCEPT !.calls = seen,
                                !.errors = @ \o PrefixAll(key, validation.res.left)])

\* the result object started as a copy of the input instead of empty
StructDecodeCopiesInput(s, data) ==
    IF TypeOf(data) # "object" \/ data = null
    THEN [res |-> Left(<<[code |-> "invalid_type",
                          message |-> <<"Expected object, received ",
                                        IF data = null THEN "null" ELSE TypeOf(data)>>,
                          input |-> data]>>),
          calls |-> <<Call(s, data)>>]
    ELSE LET acc == StructDecodeLoop(s, data, 1,
                      [result |-> IF data.k = "object" THEN data.f ELSE NoProps,
                       errors |-> <<>>,
                       calls |-> <<Call(s, data)>>, thrown |-> null])
         IN  [res |-> IF acc.thrown # null THEN acc.thrown
                      ELSE IF Len(acc.errors) > 0 THEN Left(acc.errors)
                      ELSE Right(Obj(acc.result)),
              calls |-> acc.calls]

\* Struct(...).decode
StructDecode(s, data) ==
    IF TypeOf(data) # "object" \/ data = null
    THEN [res |-> Left(<<[code |-> "invalid_type",
                          message |-> <<"Expected object, received ",
                                        IF data = null THEN "null" ELSE TypeOf(data)>>,
                          input |-> data]>>),
          calls |-> <<Call(s, data)>>]
    ELSE LET acc == StructDecodeLoop(s, data, 1,
                      [result |-> NoProps, errors |-> <<>>,
                       calls |-> <<Call(s, data)>>, thrown |-> null])
         IN  [res |-> IF acc.thrown # null THEN acc.thrown
                      ELSE IF Len(acc.errors) > 0 THEN Left(acc.errors)
                      ELSE Right(Obj(acc.result)),
              calls |-> acc.calls]

\* the loop puts each decoded element in front of the earlier ones
ListDecodeLoopPrepends(s, data, i, acc) ==
    IF i > Len(data.e) THEN acc
    ELSE LET item == data.e[i]
             validation == Decode(s.itemSchema, item)
             seen == acc.calls \o CallsUnder(ToString(i - 1), validation.calls)
         IN  IF isThrow(validation.res)
             THEN [acc EXCEPT !.calls = seen, !.thrown = validation.res]
             ELSE IF isRight(validation.res)
             THEN ListDecodeLoop(s, data, i + 1,
                    [acc EXCEPT !.calls = seen,
                       !.results = <<validation.res.right>> \o @])
             ELSE ListDecodeLoop(s, data, i + 1,
                    [acc EXCEPT !.calls = seen,
                       !.errors = @ \o PrefixAll(ToString(i - 1), validation.res.left)])

\* the for loop of List.decode from the i-th element on (i counts from 1)
ListDecodeLoop(s, data, i, acc) ==
    IF i > Len(data.e) THEN acc
    ELSE LET item == data.e[i]
             validation == Decode(s.itemSchema, item)
             seen == acc.calls \o CallsUnder(ToString(i - 1), validation.calls)
         IN  IF isThrow(validation.res)
             THEN [acc EXCEPT !.calls = seen, !.thrown = validation.res]
             ELSE IF isRight(validation.res)
             THEN ListDecodeLoop(s, data, i + 1,
                    [acc EXCEPT !.calls = seen,
                       !.results = Append(@, validation.res.right)])
             ELSE ListDecodeLoop(s, data, i + 1,
                    [acc EXCEPT !.calls = seen,
                       !.errors = @ \o PrefixAll(ToString(i - 1), validation.res.left)])

\* List(...).decode
ListDecode(s, data) ==
    IF data.k # "array"
    THEN [res |-> Left(<<[code |-> "invalid_type",
                          message |-> <<"Expected array, received ", TypeOf(data)>>,
                          input |-> data]>>),
          calls |-> <<Call(s, data)>>]
    ELSE LET acc == ListDecodeLoop(s, data, 1,
                      [results |-> <<>>, errors |-> <<>>,
                       calls |-> <<Call(s, data)>>, thrown |-> null])
         IN  [res |-> IF acc.thrown # null THEN acc.thrown
                      ELSE IF Len(acc.errors) > 0 THEN Left(acc.errors)
                      ELSE Right(Arr(acc.results)),
              calls |-> acc.calls]

\* transform(...).decode
transformDecode(s, data) ==
    LET result == Decode(s.schema, data)
        seen == <<Call(s, data)>> \o result.calls
    IN  IF isThrow(result.res) \/ isLeft(result.res)
        THEN [res |-> result.res, calls |-> seen]
        ELSE LET applied == Apply(s.transformer, result.res.right)
             IN  IF applied.ok THEN [res |-> Right(applied.v), calls |-> seen]
                 ELSE LET msg == MessageOf(applied.thrown)
                      IN  IF ~msg.ok
                          THEN [res |-> Throw(NullMessageTypeError), calls |-> seen]
                          ELSE [res |-> Left(<<[code |-> "transform_error",
                                                message |-> <<"Transformation error: ">>
                                                            \o msg.text,
                                                input |-> result.res.right]>>),
                                calls |-> seen]

\* schema.decode(data): [res, calls], res a Right, a Left or a Throw, calls the
\* decode invocations made, in order, each with the path it was made at
Decode(s, data) ==
    CASE s.t = "prim" -> [res |-> PrimitiveDecode(s, data), calls |-> <<Call(s, data)>>]
      [] s.t = "lit" -> [res |-> LiteralDecode(s, data), calls |-> <<Call(s, data)>>]
      [] s.t = "struct" -> StructDecode(s, data)
      [] s.t = "list" -> ListDecode(s, data)
      [] s.t = "transform" -> transformDecode(s, data)

(***************************************************************************)
(* encode: [ok, v], or [ok = FALSE, thrown] when it throws                 *)
(***************************************************************************)
RECURSIVE Encode(_, _)
RECURSIVE StructEncodeLoop(_, _, _, _)
RECURSIVE ListEncodeLoop(_, _, _, _)

\* Literal(...).encode
LiteralEncode(s, value) ==
    IF value # s.literal
    THEN LET lit == JSONstringify(s.literal)
             got == JSONstringify(value)
         IN  [ok |-> FALSE,
              thrown |-> IF ~lit.ok \/ ~got.ok THEN StringifyTypeError
                         ELSE ErrorObj("Error", <<"Cannot encode: Expected ">> \o lit.text
                                                 \o <<", received ">> \o got.text)]
    ELSE [ok |-> TRUE, v |-> value]

\* JavaScript truthiness of the values of the model
Truthy(v) == v.k \notin {"undefined", "null"} /\ v # Bool(FALSE) /\ v # Num(0) /\ v # Str("")

\* the property tested for truthiness instead of against undefined
StructEncodeLoopTruthy(s, value, i, result) ==
    IF i > Len(s.keys) THEN [ok |-> TRUE, v |-> Obj(result)]
    ELSE LET key == s.keys[i]
         IN  IF HasOwn(value, key) /\ Truthy(value.f[key])
             THEN LET e == Encode(s.validators[key], value.f[key])
                  IN  IF e.ok
                      THEN StructEncodeLoop(s, value, i + 1, SetProp(result, key, e.v))
                      ELSE e
             ELSE StructEncodeLoop(s, value, i + 1, result)

\* the loop of Struct.encode over Object.keys(validators) from the i-th key on
StructEncodeLoop(s, value, i, result) ==
    IF i > Len(s.keys) THEN [ok |-> TRUE, v |-> Obj(result)]
    ELSE LET key == s.keys[i]
         IN  IF HasOwn(value, key) /\ value.f[key] # undefined
             THEN LET e == Encode(s.validators[key], value.f[key])
                  IN  IF e.ok
                      THEN StructEncodeLoop(s, value, i + 1, SetProp(result, key, e.v))
                      ELSE e
             ELSE StructEncodeLoop(s, value, i + 1, result)

\* value.map((item) => itemSchema.encode(item)) from the i-th element on
ListEncodeLoop(s, value, i, result) ==
    IF i > Len(value.e) THEN [ok |-> TRUE, v |-> Arr(result)]
    ELSE LET e == Encode(s.itemSchema, value.e[i])
         IN  IF e.ok THEN ListEncodeLoop(s, value, i + 1, Append(result, e.v))
             ELSE e

\* transform(...).encode
transformEncode(s, value) ==
    LET back == Apply(s.reverseTransformer, value)
        e == IF back.ok THEN Encode(s.schema, back.v) ELSE back
    IN  IF e.ok THEN e
        ELSE LET msg == MessageOf(e.thrown)
             IN  [ok |-> FALSE,
                  thrown |-> IF ~msg.ok THEN NullMessageTypeError
                             ELSE ErrorObj("Error", <<"Encoding error: ">> \o msg.text)]

\* schema.encode(value)
Encode(s, value) ==
    CASE s.t = "prim" -> Apply(s.encoder, value)
      [] s.t = "lit" -> LiteralEncode(s, value)
      [] s.t = "struct" -> StructEncodeLoop(s, value, 1, NoProps)
      [] s.t = "list" -> ListEncodeLoop(s, value, 1, <<>>)
      [] s.t = "transform" -> transformEncode(s, value)

(***************************************************************************)
(* make: [ok, v], or [ok = FALSE, thrown] when it throws                   *)
(***************************************************************************)
\* err.path ? err.path.join(".") : ""
PathStr(err) ==
    IF "path" \in DOMAIN err THEN Join([i \in 1..Len(err.path) |-> <<err.path[i]>>], ".")
    ELSE <<>>

\* `${pathStr ? pathStr + ": " : ""}${err.message}`
FormatWithPath(err) ==
    (IF Flatten(PathStr(err)) # "" THEN PathStr(err) \o <<": ">> ELSE <<>>) \o err.message

\* err.message alone
FormatMessageOnly(err) == err.message

\* makePrimitive(...).make
PrimitiveMake(s, data) ==
    IF ~Guard(s.guard, data)
    THEN [ok |-> FALSE,
          thrown |-> ErrorObj("Error", <<"Validation failed: ", "Expected ", s.typeName,
                                         ", received ", TypeOf(data)>>)]
    ELSE [ok |-> TRUE, v |-> data]

\* Literal(...).make
LiteralMake(s, data) ==
    IF data # s.literal
    THEN LET lit == JSONstringify(s.literal)
             got == JSONstringify(data)
         IN  [ok |-> FALSE,
              thrown |-> IF ~lit.ok \/ ~got.ok THEN StringifyTypeError
                         ELSE ErrorObj("Error", <<"Validation failed: ", "Expected ">>
                                                 \o lit.text \o <<", received ">>
                                                 \o got.text)]
    ELSE [ok |-> TRUE, v |-> s.literal]

\* the shared shape of Struct.make, List.make and transform.make: decode, then
\* throw the errors mapped through the formatter and joined with ", "
MakeFromDecode(result, formatted) ==
    IF isThrow(result) THEN [ok |-> FALSE, thrown |-> result.error]
    ELSE IF isLeft(result)
    THEN [ok |-> FALSE,
          thrown |-> ErrorObj("Error", <<"Validation failed: ">> \o Join(formatted, ", "))]
    ELSE [ok |-> TRUE, v |-> result.right]

\* Struct(...).make
StructMake(s, data) ==
    LET result == Decode(s, data).res
    IN  MakeFromDecode(result,
            IF isLeft(result)
            THEN [i \in 1..Len(result.left) |-> FormatWithPath(result.left[i])]
            ELSE <<>>)

\* List(...).make
ListMake(s, data) ==
    LET result == Decode(s, data).res
    IN  MakeFromDecode(result,
            IF isLeft(result)
            THEN [i \in 1..Len(result.left) |-> FormatWithPath(result.left[i])]
            ELSE <<>>)

\* transform(...).make
transformMake(s, data) ==
    LET result == Decode(s, data).res
    IN  MakeFromDecode(result,
            IF isLeft(result)
            THEN [i \in 1..Len(result.left) |-> FormatMessageOnly(result.left[i])]
            ELSE <<>>)

\* schema.make(data)
Make(s, data) ==
    CASE s.t = "prim" -> PrimitiveMake(s, data)
      [] s.t = "lit" -> LiteralMake(s, data)
      [] s.t = "struct" -> StructMake(s, data)
      [] s.t = "list" -> ListMake(s, data)
      [] s.t = "transform" -> transformMake(s, data)

(***************************************************************************)
(* Option, src/index.ts 49-159                                             *)
(***************************************************************************)
None == [tag |-> "None", value |-> undefined]
Some(value) == [tag |-> "Some", value |-> value]
isSome(o) == o.tag = "Some"
isNone(o) == o.tag = "None"

\* value == null
LooseNull(value) == value = null \/ value = undefined

fromNullable(value) == IF LooseNull(value) THEN None ELSE Some(value)

\* the functions handed to Option.map
MapFn(fn, a) ==
    CASE fn = "identity" -> a
      [] fn = "toNull" -> null
      [] fn = "toUndefined" -> undefined
      [] fn = "toZero" -> Num(0)
      [] fn = "toEmptyString" -> Str("")
      [] fn = "toFalse" -> Bool(FALSE)

bimap(o, fn) ==
    IF isNone(o) THEN o
    ELSE LET b == MapFn(fn, o.value)
         IN  IF LooseNull(b) THEN None ELSE Some(b)

OptionMap(fn, o) == bimap(o, fn)

\* the functions handed to Option.flatMap
FlatMapFn(fn, a) ==
    CASE fn = "fromNullable" -> fromNullable(a)
      [] fn = "fromNullableOfNull" -> fromNullable(null)
      [] fn = "some" -> Some(a)
      [] fn = "someOfUndefined" -> Some(undefined)
      [] fn = "none" -> None

OptionFlatMap(fn, o) == IF isSome(o) THEN FlatMapFn(fn, o.value) ELSE o

(***************************************************************************)
(* ReaderTaskEither, src/task.ts                                           *)
(***************************************************************************)
\* effect descriptors: what from, map and flatMap return before any runtime is given
from(f) == [e |-> "from", f |-> f]
map(fn, readerTaskEither) == [e |-> "map", fn |-> fn, rte |-> readerTaskEither]
flatMap(fn, readerTaskEither) == [e |-> "flatMap", fn |-> fn, rte |-> readerTaskEither]

Pending == [st |-> "pending"]
Fulfilled(v) == [st |-> "fulfilled", value |-> v]
Rejected(e) == [st |-> "rejected", reason |-> e]

\* the functions handed to map: [ok, v] or [ok = FALSE, thrown]
TaskMapFn(fn, r) ==
    CASE fn = "inc" -> [ok |-> TRUE, v |-> r + 1]
      [] fn = "boom" -> [ok |-> FALSE, thrown |-> "fnError"]

\* the functions handed to flatMap: [ok, rte] or [ok = FALSE, thrown]
TaskFlatMapFn(fn, r) ==
    CASE fn = "thenOp2" -> [ok |-> TRUE, rte |-> from("op2")]
      [] fn = "thenIncOp2" -> [ok |-> TRUE, rte |-> map("inc", from("op2"))]
      [] fn = "kBoom" -> [ok |-> FALSE, thrown |-> "fnError"]

\* the rejection of f(runtime) left to propagate: no try/catch around the await
fromResumedUncaught(op) ==
    IF op.st = "fulfilled" THEN Fulfilled(Right(op.value))
    ELSE Rejected(op.reason)

\* the async function of from, resumed with the settled promise of f(runtime),
\* or with what f threw before returning a promise: the promise it settles
fromResumed(op) ==
    IF op.st = "fulfilled" THEN Fulfilled(Right(op.value))
    ELSE Fulfilled(Left(op.reason))

\* the async function of map, resumed with the settled promise it awaited
mapResumed(fn, awaited) ==
    IF awaited.st = "rejected" THEN awaited
    ELSE IF isRight(awaited.value)
    THEN LET b == TaskMapFn(fn, awaited.value.right)
         IN  IF b.ok THEN Fulfilled(Right(b.v)) ELSE Rejected(b.thrown)
    ELSE awaited

\* e.right, as JavaScript reads it off any Either
RightOf(e) == IF isRight(e) THEN e.right ELSE "undefined"

\* f called whatever the first computation gave: no isRight test
flatMapResumedUnchecked(fn, awaited) ==
    IF awaited.st = "rejected" THEN [called |-> FALSE, returns |-> awaited]
    ELSE LET b == TaskFlatMapFn(fn, RightOf(awaited.value))
         IN  IF b.ok THEN [called |-> TRUE, next |-> b.rte]
             ELSE [called |-> TRUE, returns |-> Rejected(b.thrown)]

\* the async function of flatMap, resumed with the settled promise it awaited:
\* [called, returns], called = whether f was invoked, returns = the settled
\* promise it ends with, or [next] = the effect whose promise it returns
flatMapResumed(fn, awaited) ==
    IF awaited.st = "rejected" THEN [called |-> FALSE, returns |-> awaited]
    ELSE IF isRight(awaited.value)
    THEN LET b == TaskFlatMapFn(fn, awaited.value.right)
         IN  IF b.ok THEN [called |-> TRUE, next |-> b.rte]
             ELSE [called |-> TRUE, returns |-> Rejected(b.thrown)]
    ELSE [called |-> FALSE, returns |-> awaited]

RECURSIVE StartFramesStaleRuntime(_, _, _, _, _)
\* the closures run with a runtime captured elsewhere instead of the one handed in
StartFramesStaleRuntime(rte, r, role, inner, threw) ==
    IF rte.e = "from"
    THEN <<[rte |-> rte, runtime |-> "r1", role |-> role, at |-> "await",
            op |-> IF threw THEN Rejected("opThrown") ELSE Pending]>>
    ELSE <<[rte |-> rte, runtime |-> "r1", role |-> role, at |-> "await", op |-> Pending]>>
         \o StartFramesStaleRuntime(rte.rte, r, inner, inner, threw)

RECURSIVE StartFrames(_, _, _, _, _)
\* readerTaskEither(runtime)(): the async functions entered, outermost first, each
\* running to its await; the innermost is from's, which invokes f(runtime).
\* role / inner tell the frames of the forked effect's source from those of the
\* effect a flatMap continues with; threw = f throws before returning a promise
StartFrames(rte, r, role, inner, threw) ==
    IF rte.e = "from"
    THEN <<[rte |-> rte, runtime |-> r, role |-> role, at |-> "await",
            op |-> IF threw THEN Rejected("opThrown") ELSE Pending]>>
    ELSE <<[rte |-> rte, runtime |-> r, role |-> role, at |-> "await", op |-> Pending]>>
         \o StartFrames(rte.rte, r, inner, inner, threw)

Top == stack[Len(stack)]

\* the event of the innermost from invoking its wrapped operation
Invoked(frames, base) ==
    [ev |-> "invoke", f |-> frames[Len(frames)].rte.f,
     runtime |-> frames[Len(frames)].runtime,
     role |-> frames[Len(frames)].role, depth |-> base + Len(frames),
     threw |-> frames[Len(frames)].op.st = "rejected"]

TaskValues == {1, 2}
TaskErrors == {"e1", "e2"}

\* fork(runtime)(effect)
fork ==
    /\ pc = "built"
    /\ \E threw \in BOOLEAN :
        LET frames == StartFrames(effect, runtime, "top", "first", threw)
        IN  /\ stack' = frames
            /\ log' = <<Invoked(frames, 0)>>
    /\ pc' = "forked"
    /\ UNCHANGED <<effect, runtime, settled, promise>>

\* the promise returned by a wrapped operation settles
OperationSettles ==
    /\ pc = "forked" /\ Len(stack) > 0
    /\ Top.rte.e = "from" /\ Top.op.st = "pending"
    /\ \E outcome \in {Fulfilled(v) : v \in TaskValues} \cup {Rejected(e) : e \in TaskErrors} :
        /\ stack' = [stack EXCEPT ![Len(stack)].op = outcome]
        /\ log' = Append(log, [ev |-> "settle", f |-> Top.rte.f, outcome |-> outcome,
                               role |-> Top.role, depth |-> Len(stack)])
    /\ UNCHANGED <<effect, runtime, pc, settled, promise>>

\* the innermost async function ends with the settled promise result
Return(result, events) ==
    /\ stack' = Front(stack)
    /\ settled' = result
    /\ log' = log \o events
               \o <<[ev |-> "done", rte |-> Top.rte, result |-> result,
                     role |-> Top.role, depth |-> Len(stack)]>>
    /\ IF Len(stack) = 1
       THEN promise' = result /\ pc' = "done"
       ELSE UNCHANGED <<promise, pc>>

Applied(fn, arg) ==
    [ev |-> "apply", fn |-> fn, arg |-> arg, role |-> Top.role, depth |-> Len(stack)]

\* from's async function continues after await f(runtime)
ResumeFrom ==
    /\ pc = "forked" /\ Len(stack) > 0
    /\ Top.rte.e = "from" /\ Top.op.st # "pending"
    /\ Return(fromResumed(Top.op), <<>>)
    /\ UNCHANGED <<effect, runtime>>

\* map's async function continues after await readerTaskEither(runtime)()
ResumeMap ==
    /\ pc = "forked" /\ Len(stack) > 0
    /\ Top.rte.e = "map" /\ settled.st # "pending"
    /\ Return(mapResumed(Top.rte.fn, settled),
              IF settled.st = "fulfilled" /\ isRight(settled.value)
              THEN <<Applied(Top.rte.fn, settled.value.right)>> ELSE <<>>)
    /\ UNCHANGED <<effect, runtime>>

\* flatMap's async function continues after await readerTaskEither(runtime)()
ResumeFlatMap ==
    /\ pc = "forked" /\ Len(stack) > 0
    /\ Top.rte.e = "flatMap" /\ Top.at = "await" /\ settled.st # "pending"
    /\ LET step == flatMapResumed(Top.rte.fn, settled)
           events == IF step.called
                     THEN <<Applied(Top.rte.fn, RightOf(settled.value))>> ELSE <<>>
       IN  IF "returns" \in DOMAIN step
           THEN Return(step.returns, events)
           ELSE \E threw \in BOOLEAN :
                  LET role == IF Top.role = "top" THEN "second" ELSE Top.role
                      frames == StartFrames(step.next, Top.runtime, role, role, threw)
                  IN  /\ stack' = [stack EXCEPT ![Len(stack)].at = "return"] \o frames
                      /\ log' = log \o events \o <<Invoked(frames, Len(stack))>>
                      /\ settled' = Pending
                      /\ UNCHANGED <<promise, pc>>
    /\ UNCHANGED <<effect, runtime>>

\* the promise flatMap's async function returned settles as the one it adopted
ReturnFlatMap ==
    /\ pc = "forked" /\ Len(stack) > 0
    /\ Top.rte.e = "flatMap" /\ Top.at = "return" /\ settled.st # "pending"
    /\ Return(settled, <<>>)
    /\ UNCHANGED <<effect, runtime>>

(***************************************************************************)
(* The schemas and inputs explored                                         *)
(***************************************************************************)
\* a primitive built by createPrimitive with an explicit encoder argument
UpperString == makePrimitive("string", "string", "toUpperCase")

Leaves == {String, Number, Null, Undefined, Literal(Str("x"))}
KeySeqs == {<<>>, <<"a">>, <<"a", "b">>, <<"b", "a">>}
Transformers == {"identity", "throwError", "throwNull"}

StructsOver(S) == {Struct(ks, f) : <<ks, f>> \in UNION {{ks} \X [Range(ks) -> S] : ks \in KeySeqs}}

Level1 ==
    Leaves \cup {UpperString} \cup StructsOver(Leaves)
    \cup {List(s) : s \in Leaves \cup {UpperString}}
    \cup {transform(s, f, "identity") : s \in {String}, f \in Transformers}

Inner ==
    {Struct(<<"b">>, [b |-> Number]), Struct(<<"a", "b">>, [a |-> UpperString, b |-> Number]),
     List(Number), List(Struct(<<"b">>, [b |-> Number])),
     transform(Number, "throwError", "identity")}

Level2 ==
    {Struct(<<"a">>, [a |-> s]) : s \in Inner}
    \cup {List(s) : s \in Inner}
    \cup {transform(Struct(<<"a">>, [a |-> s]), f, "identity") :
            s \in Inner, f \in {"identity", "throwError"}}

Schemas == Level1 \cup Level2

Atoms == {undefined, null, Bool(TRUE), Num(1), Str("x"), BigInt}
FieldVals == {undefined, null, Num(1), Str("x"), BigInt}
ElemVals == {undefined, Num(1), Str("x")}

WithExtra(o) == {o, Obj(SetProp(o.f, "z", Num(1)))}

Objs1 == UNION {WithExtra(Obj(f)) : f \in UNION {[D -> FieldVals] : D \in SUBSET {"a", "b"}}}
Arrs1 == {Arr(e) : e \in UNION {[1..n -> ElemVals] : n \in 0..MaxLen}}

InnerVals ==
    {Obj(NoProps), Obj([b |-> Num(1)]), Obj([b |-> Str("x")]),
     Obj([a |-> Str("x"), b |-> Num(1), z |-> Num(1)]),
     Arr(<<>>), Arr(<<Num(1), Str("x")>>), Arr(<<Obj([b |-> Num(1)]), Obj(NoProps)>>)}

Objs2 == UNION {WithExtra(Obj([a |-> v])) : v \in InnerVals}
Arrs2 == {Arr(<<v>>) : v \in InnerVals} \cup {Arr(<<v, w>>) : v, w \in InnerVals}

\* arrays of numbers that differ from one position to the next
NumberArrs == {Arr(e) : e \in UNION {[1..n -> {Num(1), Num(2)}] : n \in 2..MaxLen}}

Inputs == Atoms \cup Objs1 \cup Arrs1 \cup Objs2 \cup Arrs2 \cup NumberArrs

(***************************************************************************)
(* The codec as a state machine: a schema is built, then used              *)
(***************************************************************************)
Nothing == [tag |-> "Nothing"]

ValidationInit ==
    /\ schema \in Schemas
    /\ input \in Inputs
    /\ phase = "ready"
    /\ out = Nothing
    /\ calls = <<>>
    /\ encoded = Nothing

\* schema.decode(input)
DecodeCall ==
    /\ phase = "ready"
    /\ LET r == Decode(schema, input)
       IN  /\ out' = r.res
           /\ calls' = r.calls
    /\ phase' = "decoded"
    /\ UNCHANGED <<schema, input, encoded>>

\* schema.make(input)
MakeCall ==
    /\ phase = "ready"
    /\ out' = Make(schema, input)
    /\ phase' = "made"
    /\ UNCHANGED <<schema, input, calls, encoded>>

\* schema.encode(decoded.right)
EncodeCall ==
    /\ phase = "decoded"
    /\ isRight(out)
    /\ encoded' = Encode(schema, out.right)
    /\ phase' = "encoded"
    /\ UNCHANGED <<schema, input, out, calls>>

OptionIdle == option = None /\ lastCall = [op |-> "idle"]

TaskIdle ==
    /\ effect = Nothing /\ runtime = Nothing /\ pc = "idle"
    /\ stack = <<>> /\ settled = Pending /\ promise = Pending /\ log = <<>>

Init == ValidationInit /\ OptionIdle /\ TaskIdle

Next ==
    \/ DecodeCall /\ UNCHANGED <<optionVars, taskVars>>
    \/ MakeCall /\ UNCHANGED <<optionVars, taskVars>>
    \/ EncodeCall /\ UNCHANGED <<optionVars, taskVars>>

Spec == Init /\ [][Next]_vars

ValidationIdle ==
    /\ schema = Nothing /\ input = Nothing /\ phase = "idle"
    /\ out = Nothing /\ calls = <<>> /\ encoded = Nothing

(***************************************************************************)
(* Option as a state machine: Options are produced one from another        *)
(***************************************************************************)
OptionValues ==
    {undefined, null, Num(0), Num(1), Num(2), Str(""), Str("x"), Bool(FALSE), Bool(TRUE)}
MapFns == {"identity", "toNull", "toUndefined", "toZero", "toEmptyString", "toFalse"}
FlatMapFns == {"fromNullable", "fromNullableOfNull", "some", "someOfUndefined", "none"}

\* Option.Some(value)
SomeCall ==
    \E value \in OptionValues :
        /\ option' = Some(value)
        /\ lastCall' = [op |-> "Some", value |-> value]

\* Option.fromNullable(value)
FromNullableCall ==
    \E value \in OptionValues :
        /\ option' = fromNullable(value)
        /\ lastCall' = [op |-> "fromNullable", value |-> value]

\* Option.map(fn)(option)
MapCall ==
    \E fn \in MapFns :
        /\ option' = OptionMap(fn, option)
        /\ lastCall' = [op |-> "map", fn |-> fn, on |-> option]

\* Option.flatMap(fn)(option)
FlatMapCall ==
    \E fn \in FlatMapFns :
        /\ option' = OptionFlatMap(fn, option)
        /\ lastCall' = [op |-> "flatMap", fn |-> fn, on |-> option]

OptionInit == ValidationIdle /\ OptionIdle /\ TaskIdle

OptionNext ==
    \/ SomeCall /\ UNCHANGED <<validationVars, taskVars>>
    \/ FromNullableCall /\ UNCHANGED <<validationVars, taskVars>>
    \/ MapCall /\ UNCHANGED <<validationVars, taskVars>>
    \/ FlatMapCall /\ UNCHANGED <<validationVars, taskVars>>

OptionSpec == OptionInit /\ [][OptionNext]_vars

(***************************************************************************)
(* The effects forked                                                      *)
(***************************************************************************)
TaskMapFns == {"inc", "boom"}
TaskFlatMapFns == {"thenOp2", "thenIncOp2", "kBoom"}
Runtimes == {"r1", "r2"}

Sources == {from("op1")} \cup {map(fn, from("op1")) : fn \in TaskMapFns}
           \cup {flatMap(fn, from("op1")) : fn \in {"thenOp2"}}

Effects ==
    Sources
    \cup {map(fn, rte) : fn \in TaskMapFns, rte \in Sources}
    \cup {flatMap(fn, rte) : fn \in TaskFlatMapFns, rte \in Sources}

TaskInit ==
    /\ ValidationIdle /\ OptionIdle
    /\ effect \in Effects
    /\ runtime \in Runtimes
    /\ pc = "built"
    /\ stack = <<>> /\ settled = Pending /\ promise = Pending /\ log = <<>>

TaskNext ==
    \/ fork /\ UNCHANGED <<validationVars, optionVars>>
    \/ OperationSettles /\ UNCHANGED <<validationVars, optionVars>>
    \/ ResumeFrom /\ UNCHANGED <<validationVars, optionVars>>
    \/ ResumeMap /\ UNCHANGED <<validationVars, optionVars>>
    \/ ResumeFlatMap /\ UNCHANGED <<validationVars, optionVars>>
    \/ ReturnFlatMap /\ UNCHANGED <<validationVars, optionVars>>

TaskSpec == TaskInit /\ [][TaskNext]_vars

(***************************************************************************)
(* Vocabulary of the codec properties                                      *)
(***************************************************************************)
\* typeof data === "object" && data !== null
IsObjectInput(d) == TypeOf(d) = "object" /\ d # null

RECURSIVE HasTransform(_)
HasTransform(s) ==
    CASE s.t = "transform" -> TRUE
      [] s.t = "struct" -> \E key \in Range(s.keys) : HasTransform(s.validators[key])
      [] s.t = "list" -> HasTransform(s.itemSchema)
      [] OTHER -> FALSE

RECURSIVE HasLiteral(_)
HasLiteral(s) ==
    CASE s.t = "lit" -> TRUE
      [] s.t = "struct" -> \E key \in Range(s.keys) : HasLiteral(s.validators[key])
      [] s.t = "list" -> HasLiteral(s.itemSchema)
      [] s.t = "transform" -> HasLiteral(s.schema)
      [] OTHER -> FALSE

RECURSIVE HasExplicitEncoder(_)
HasExplicitEncoder(s) ==
    CASE s.t = "prim" -> s.encoder # "identity"
      [] s.t = "struct" -> \E key \in Range(s.keys) : HasExplicitEncoder(s.validators[key])
      [] s.t = "list" -> HasExplicitEncoder(s.itemSchema)
      [] s.t = "transform" -> HasExplicitEncoder(s.schema)
      [] OTHER -> FALSE

\* the element index a path segment names, counted from 1 (0 when it names none)
IndexOf(segment, n) ==
    IF \E i \in 1..n : ToString(i - 1) = segment
    THEN CHOOSE i \in 1..n : ToString(i - 1) = segment
    ELSE 0

RECURSIVE ValueAt(_, _)
\* the value reached from d by following the keys / indices of path
ValueAt(d, path) ==
    IF Len(path) = 0 THEN d
    ELSE IF d.k = "array"
    THEN LET i == IndexOf(path[1], Len(d.e))
         IN  IF i = 0 THEN undefined ELSE ValueAt(d.e[i], Tail(path))
    ELSE ValueAt(Get(d, path[1]), Tail(path))

RECURSIVE SchemaAt(_, _)
\* the schema reached from s by following path (Nothing when path leaves s)
SchemaAt(s, path) ==
    IF Len(path) = 0 THEN s
    ELSE IF s.t = "struct" /\ path[1] \in Range(s.keys)
    THEN SchemaAt(s.validators[path[1]], Tail(path))
    ELSE IF s.t = "list" THEN SchemaAt(s.itemSchema, Tail(path))
    ELSE Nothing

RECURSIVE Concat(_)
\* the concatenation of a sequence of sequences
Concat(seqs) == IF Len(seqs) = 0 THEN <<>> ELSE seqs[1] \o Concat(Tail(seqs))

\* the errors a result carries (none for a Right)
ErrorsOf(res) == IF isLeft(res) THEN res.left ELSE <<>>

\* what field key of the struct schema s owes to the error list on input d
FieldErrors(s, d, key) ==
    IF Get(d, key) = undefined
    THEN <<[path |-> <<key>>, code |-> "required",
            message |-> <<"Required field ", key, " is missing">>, input |-> undefined]>>
    ELSE PrefixAll(key, ErrorsOf(Decode(s.validators[key], Get(d, key)).res))

\* what element i of the array d owes to the error list of the list schema s
ElementErrors(s, d, i) ==
    PrefixAll(ToString(i - 1), ErrorsOf(Decode(s.itemSchema, d.e[i]).res))

AllFieldErrors(s, d) == Concat([i \in 1..Len(s.keys) |-> FieldErrors(s, d, s.keys[i])])
AllElementErrors(s, d) == Concat([i \in 1..Len(d.e) |-> ElementErrors(s, d, i)])

\* some decode invocation was made at exactly this path
CalledAt(path) == \E i \in 1..Len(calls) : calls[i].at = path

StructDecoded == phase = "decoded" /\ schema.t = "struct" /\ IsObjectInput(input)
ListDecoded == phase = "decoded" /\ schema.t = "list" /\ input.k = "array"

(***************************************************************************)
(* C1: accumulation                                                        *)
(***************************************************************************)
\* every declared field with a value, and every element, was handed to its decoder
EveryFieldVisited ==
    \A i \in 1..Len(schema.keys) :
        Get(input, schema.keys[i]) # undefined => CalledAt(<<schema.keys[i]>>)
EveryElementVisited == \A i \in 1..Len(input.e) : CalledAt(<<ToString(i - 1)>>)

StructAccumulates ==
    /\ EveryFieldVisited
    /\ ErrorsOf(out) = AllFieldErrors(schema, input)
    /\ isRight(out) <=> Len(AllFieldErrors(schema, input)) = 0
    /\ isLeft(out) <=> Len(AllFieldErrors(schema, input)) > 0

ListAccumulates ==
    /\ EveryElementVisited
    /\ ErrorsOf(out) = AllElementErrors(schema, input)
    /\ isRight(out) <=> Len(AllElementErrors(schema, input)) = 0
    /\ isLeft(out) <=> Len(AllElementErrors(schema, input)) > 0

\* C1: Struct.decode of a non-null object visits every declared field and returns
\* the errors of every missing or failing field together, List.decode of an array
\* decodes every element and returns the errors of every failing element together,
\* and the result is a Right exactly when no error was accumulated.
C1_Accumulates ==
    /\ StructDecoded => StructAccumulates
    /\ ListDecoded => ListAccumulates

\* what remains of C1 on the code: the same, in the runs where no nested decode throws
C1_AccumulatesUnlessThrown ==
    /\ StructDecoded => (isThrow(out) \/ StructAccumulates)
    /\ ListDecoded => (isThrow(out) \/ ListAccumulates)

\* a struct with two declared fields decoding {} returns exactly two errors
C1_TwoMissingFields ==
    (StructDecoded /\ Len(schema.keys) = 2 /\ input = Obj(NoProps)) =>
        /\ isLeft(out) /\ Len(out.left) = 2
        /\ \A i \in 1..2 : out.left[i].path = <<schema.keys[i]>>

(***************************************************************************)
(* C2: error paths                                                         *)
(***************************************************************************)
\* err, returned for the input d by the schema s, sits at the end of its path:
\* the path leads from d to the offending value, and from s to the schema that
\* refused it (for "required": to the struct that declares the missing key)
PathLeadsToOffender(s, d, err) ==
    LET path == PathOf(err)
    IN  /\ ValueAt(d, path) = err.input
        /\ IF err.code = "required"
           THEN /\ Len(path) > 0
                /\ SchemaAt(s, Front(path)) # Nothing
                /\ SchemaAt(s, Front(path)).t = "struct"
                /\ Last(path) \in Range(SchemaAt(s, Front(path)).keys)
                /\ err.input = undefined
           ELSE /\ SchemaAt(s, path) # Nothing
                /\ LET own == Decode(SchemaAt(s, path), err.input).res
                   IN  /\ isLeft(own)
                       /\ \E i \in 1..Len(own.left) :
                            /\ PathOf(own.left[i]) = <<>>
                            /\ own.left[i].code = err.code
                            /\ own.left[i].message = err.message

\* C2: for any nesting of Struct and List, the path of every returned error is the
\* root-to-leaf sequence of field names and element indices (as strings) that
\* leads to the offending value: enclosing keys are prepended to nested paths.
C2_PathsRootToLeaf ==
    (phase = "decoded" /\ ~HasTransform(schema) /\ isLeft(out)) =>
        \A i \in 1..Len(out.left) : PathLeadsToOffender(schema, input, out.left[i])

\* an error two levels down has been returned, under a struct and under a list
C2_Witness ==
    /\ phase = "decoded" /\ ~HasTransform(schema) /\ isLeft(out)
    /\ \E i \in 1..Len(out.left) :
        /\ Len(PathOf(out.left[i])) = 2
        /\ PathOf(out.left[i])[1] # PathOf(out.left[i])[2]
        /\ out.left[i].code = "invalid_type"

\* the two examples of the specification
C2_Examples ==
    /\ (phase = "decoded"
        /\ schema = Struct(<<"a">>, [a |-> Struct(<<"b">>, [b |-> Number])])
        /\ input = Obj([a |-> Obj([b |-> Str("x")])]))
       => (isLeft(out) /\ Len(out.left) = 1 /\ out.left[1].path = <<"a", "b">>)
    /\ (phase = "decoded" /\ schema = List(Number) /\ input = Arr(<<Num(1), Str("x"), Num(1)>>))
       => (isLeft(out) /\ Len(out.left) = 1 /\ out.left[1].path = <<"1">>)

(***************************************************************************)
(* C3: make                                                                *)
(***************************************************************************)
\* decode, then unwrap the Right or throw the Left rendered with paths
MakeByContract(s, d) ==
    LET result == Decode(s, d).res
    IN  MakeFromDecode(result,
            IF isLeft(result)
            THEN [i \in 1..Len(result.left) |-> FormatWithPath(result.left[i])]
            ELSE <<>>)

SameOutcome(got, want) ==
    IF want.ok THEN got = want
    ELSE /\ ~got.ok
         /\ got.thrown.name = want.thrown.name
         /\ Flatten(got.thrown.message) = Flatten(want.thrown.message)

\* C3: for every schema constructor, make(x) is decode(x) followed by: the decoded
\* value unwrapped on success; on failure a thrown error whose message is
\* "Validation failed: " and the comma-separated errors, each with its dot-joined
\* path and its message.
C3_MakeIsDecodeThenThrow ==
    phase = "made" => SameOutcome(out, MakeByContract(schema, input))

\* what remains of C3 on the code: every constructor but transform
C3_MakeExceptTransform ==
    (phase = "made" /\ schema.t # "transform") =>
        SameOutcome(out, MakeByContract(schema, input))

\* transform.make of a struct with a failing field a.b names the path
C3_TransformNamesPath ==
    (phase = "made" /\ schema.t = "transform" /\ ~out.ok
     /\ \E i \in 1..Len(ErrorsOf(Decode(schema, input).res)) :
            PathOf(Decode(schema, input).res.left[i]) = <<"a", "b">>)
    => Contains(out.thrown.message, <<"a", ".", "b">>)

(***************************************************************************)
(* C4: round trip                                                          *)
(***************************************************************************)
RECURSIVE EqualOnDeclared(_, _, _)
\* e equals v, looking at the declared fields only where s is a struct
EqualOnDeclared(s, e, v) ==
    CASE s.t = "struct" ->
            /\ e.k = "object"
            /\ \A key \in Range(s.keys) :
                /\ HasOwn(e, key) <=> Get(v, key) # undefined
                /\ HasOwn(e, key) => EqualOnDeclared(s.validators[key], Get(e, key), Get(v, key))
      [] s.t = "list" ->
            /\ e.k = "array" /\ v.k = "array" /\ Len(e.e) = Len(v.e)
            /\ \A i \in 1..Len(v.e) : EqualOnDeclared(s.itemSchema, e.e[i], v.e[i])
      [] OTHER -> e = v

\* the schema is built only from Primitive, Struct and List
PrimitiveStructList(s) == ~HasTransform(s) /\ ~HasLiteral(s)

\* C4 as stated: round trip for every schema built from Primitive (explicit
\* encoders included), Struct and List: encode(decode(v).right) equals v on the
\* declared fields.
C4_RoundTrip ==
    (phase = "encoded" /\ PrimitiveStructList(schema)) =>
        (encoded.ok /\ EqualOnDeclared(schema, encoded.v, input))

\* C4 amended: the same for the schemas whose primitives all keep the default
\* (identity) encoder.
C4_RoundTripDefaultEncoder ==
    (phase = "encoded" /\ PrimitiveStructList(schema) /\ ~HasExplicitEncoder(schema)) =>
        (encoded.ok /\ EqualOnDeclared(schema, encoded.v, input))

\* a struct of two fields was decoded from an object with an extra key and a null
\* field, and encoded back
C4_Witness ==
    /\ phase = "encoded" /\ PrimitiveStructList(schema) /\ ~HasExplicitEncoder(schema)
    /\ schema.t = "struct" /\ Len(schema.keys) = 2
    /\ HasOwn(input, "z") /\ Get(input, "a") = null
    /\ encoded.ok /\ encoded.v # input

(***************************************************************************)
(* C5: decode never throws                                                 *)
(***************************************************************************)
\* C5: for every schema and every input, decode returns a Right or a Left; no
\* failure leaves decode as a thrown exception.
C5_DecodeNeverThrows == phase = "decoded" => (isRight(out) \/ isLeft(out))

\* where the code does keep the promise: no Literal in the schema and no
\* transformer that throws a null
C5_DecodeNeverThrowsWithoutLiteral ==
    (phase = "decoded" /\ ~HasLiteral(schema)
     /\ (schema.t = "transform" => schema.transformer # "throwNull"))
    => (isRight(out) \/ isLeft(out))

(***************************************************************************)
(* C9: undefined at a field position                                       *)
(***************************************************************************)
UndefinedFieldIsRequired(key) ==
    /\ isLeft(out)
    /\ Cardinality({j \in 1..Len(out.left) : PathOf(out.left[j]) = <<key>>}) = 1
    /\ \A j \in 1..Len(out.left) :
        (Len(PathOf(out.left[j])) > 0 /\ PathOf(out.left[j])[1] = key) =>
            (PathOf(out.left[j]) = <<key>> /\ out.left[j].code = "required")
    /\ \A j \in 1..Len(calls) : Len(calls[j].at) > 0 => calls[j].at[1] # key

\* C9: in Struct.decode a declared field whose value is undefined always produces
\* exactly one error, with code "required" and path [fieldName], and the field's
\* schema is never asked to decode it, even when it would accept undefined.
C9_UndefinedIsRequired ==
    StructDecoded =>
        \A key \in Range(schema.keys) :
            Get(input, key) = undefined => UndefinedFieldIsRequired(key)

\* what remains of C9 on the code: the same, in the runs where no sibling throws
C9_UndefinedIsRequiredUnlessThrown ==
    StructDecoded =>
        \A key \in Range(schema.keys) :
            Get(input, key) = undefined => (isThrow(out) \/ UndefinedFieldIsRequired(key))

(***************************************************************************)
(* C10: extra keys                                                         *)
(***************************************************************************)
\* the input with the keys the struct schema does not declare removed
StripExtra(s, d) ==
    IF d.k = "object"
    THEN Obj([key \in DOMAIN d.f \cap Range(s.keys) |-> d.f[key]])
    ELSE Obj(NoProps)

\* C10: undeclared keys of the input never cause an error and never appear in the
\* decoded value: decode answers as it does on the input without them, and on
\* success the decoded value's keys are exactly the declared field names.
C10_ExtraKeysSilent ==
    StructDecoded =>
        /\ out = Decode(schema, StripExtra(schema, input)).res
        /\ isRight(out) =>
            (out.right.k = "object" /\ DOMAIN out.right.f = Range(schema.keys))

\* an object with the undeclared key z was decoded successfully by a struct that
\* declares fields
C10_Witness ==
    /\ StructDecoded /\ HasOwn(input, "z") /\ Len(schema.keys) > 0
    /\ isRight(out) /\ ~HasOwn(out.right, "z")

(***************************************************************************)
(* C6: flatMap runs its effects in sequence and short-circuits             *)
(***************************************************************************)
\* the i-th event is the promise of first, the effect handed to flatMap, settling
FirstSettled(i) == log[i].ev = "done" /\ log[i].role = "first" /\ log[i].depth = 2

FirstSettledRight(i) ==
    FirstSettled(i) /\ log[i].result.st = "fulfilled" /\ isRight(log[i].result.value)
FirstSettledLeft(i) ==
    FirstSettled(i) /\ log[i].result.st = "fulfilled" /\ isLeft(log[i].result.value)

\* the j-th event is f being called by the forked flatMap, or anything done by
\* the effect f returned (its wrapped operation being invoked included)
OfSecond(j) == log[j].role = "second" \/ (log[j].ev = "apply" /\ log[j].role = "top")

\* C6: in every execution of fork on flatMap(f)(first), neither f nor the wrapped
\* operation of the effect f returns begins before first's promise has settled;
\* when first settles to a Left, f and the second operation are never invoked and
\* the fork resolves to that same Left.
C6_SequentialShortCircuit ==
    (pc \in {"forked", "done"} /\ effect.e = "flatMap") =>
        /\ \A j \in 1..Len(log) : OfSecond(j) => \E i \in 1..(j - 1) : FirstSettledRight(i)
        /\ \A i \in 1..Len(log) :
            FirstSettledLeft(i) =>
                /\ \A j \in 1..Len(log) : ~OfSecond(j)
                /\ pc = "done" => promise = log[i].result

\* first failed, and the fork has resolved
C6_Witness ==
    /\ pc = "done" /\ effect.e = "flatMap"
    /\ \E i \in 1..Len(log) : FirstSettledLeft(i) /\ promise = log[i].result
    /\ \A j \in 1..Len(log) : log[j].ev = "invoke" => log[j].f = "op1"

\* first succeeded, and the second wrapped operation has been invoked after it
C6_WitnessSecondRuns ==
    /\ pc = "forked" /\ effect.e = "flatMap"
    /\ \E j \in 1..Len(log) : log[j].ev = "invoke" /\ log[j].role = "second"

(***************************************************************************)
(* C7: from is an error boundary                                           *)
(***************************************************************************)
\* C7: fork(r)(from(f)) returns a promise that never rejects; it resolves to
\* Right(v) when f(r) completes with v, and to Left(e) when f(r) throws e
\* synchronously or its promise rejects with e; once f(r) has settled, the
\* promise can resolve.
C7_FromIsErrorBoundary ==
    (pc \in {"forked", "done"} /\ effect.e = "from") =>
        /\ promise.st # "rejected"
        /\ (pc = "forked" /\ Top.op.st # "pending") => ENABLED ResumeFrom
        /\ pc = "done" =>
            /\ promise.st = "fulfilled"
            /\ log[1].ev = "invoke" /\ log[1].runtime = runtime
            /\ IF log[1].threw THEN promise.value = Left("opThrown")
               ELSE /\ log[2].ev = "settle"
                    /\ log[2].outcome.st = "fulfilled" =>
                        promise.value = Right(log[2].outcome.value)
                    /\ log[2].outcome.st = "rejected" =>
                        promise.value = Left(log[2].outcome.reason)

\* f threw before returning a promise, and the fork resolved to a Left
C7_Witness ==
    /\ pc = "done" /\ effect.e = "from"
    /\ log[1].threw /\ promise = Fulfilled(Left("opThrown"))

\* the promise of f rejected, and the fork resolved to a Left
C7_WitnessRejected ==
    /\ pc = "done" /\ effect.e = "from"
    /\ ~log[1].threw /\ log[2].outcome.st = "rejected" /\ isLeft(promise.value)

(***************************************************************************)
(* C8: no Some wraps null or undefined                                     *)
(***************************************************************************)
\* C8: no Some ever wraps null or undefined, whichever way the Option was
\* produced (Some, fromNullable, map, flatMap): Some of a null/undefined input is
\* None; fromNullable(null) and fromNullable(undefined) are None and
\* fromNullable(v) is Some(v) otherwise; map(f)(Some(v)) is None when f(v) is
\* null/undefined and Some(f(v)) otherwise.
C8_NoSomeWrapsNull ==
    /\ isSome(option) => ~LooseNull(option.value)
    /\ lastCall.op = "Some" =>
        option = (IF LooseNull(lastCall.value) THEN None ELSE Some(lastCall.value))
    /\ lastCall.op = "fromNullable" =>
        option = (IF LooseNull(lastCall.value) THEN None ELSE Some(lastCall.value))
    /\ (lastCall.op = "map" /\ isSome(lastCall.on)) =>
        option = (IF LooseNull(MapFn(lastCall.fn, lastCall.on.value)) THEN None
                  ELSE Some(MapFn(lastCall.fn, lastCall.on.value)))

\* what remains of C8 on the code: fromNullable and map keep the promise
C8_FromNullableAndMapNormalise ==
    /\ lastCall.op \in {"fromNullable", "map"} =>
        (isSome(option) => ~LooseNull(option.value))
    /\ lastCall.op = "fromNullable" =>
        option = (IF LooseNull(lastCall.value) THEN None ELSE Some(lastCall.value))
    /\ (lastCall.op = "map" /\ isSome(lastCall.on)) =>
        option = (IF LooseNull(MapFn(lastCall.fn, lastCall.on.value)) THEN None
                  ELSE Some(MapFn(lastCall.fn, lastCall.on.value)))

(***************************************************************************)
(* Effects built step by step, then forked                                 *)
(***************************************************************************)
\* most map / flatMap steps composed over the one from(f)
MaxSteps == 2

RECURSIVE Steps(_)
\* the number of map / flatMap steps of an effect
Steps(rte) == IF rte.e = "from" THEN 0 ELSE 1 + Steps(rte.rte)

\* from(f): the descriptor is returned, f is not called
fromCall ==
    /\ pc = "unbuilt"
    /\ effect' = from("op1")
    /\ pc' = "built"
    /\ UNCHANGED <<runtime, stack, settled, promise, log>>

\* map(fn)(effect): the descriptor is returned, nothing runs
mapCall ==
    /\ pc = "built" /\ Steps(effect) < MaxSteps
    /\ \E fn \in TaskMapFns : effect' = map(fn, effect)
    /\ UNCHANGED <<runtime, pc, stack, settled, promise, log>>

\* flatMap(fn)(effect): the descriptor is returned, nothing runs
flatMapCall ==
    /\ pc = "built" /\ Steps(effect) < MaxSteps
    /\ \E fn \in TaskFlatMapFns : effect' = flatMap(fn, effect)
    /\ UNCHANGED <<runtime, pc, stack, settled, promise, log>>

TaskBuildInit ==
    /\ ValidationIdle /\ OptionIdle
    /\ effect = Nothing
    /\ runtime \in Runtimes
    /\ pc = "unbuilt"
    /\ stack = <<>> /\ settled = Pending /\ promise = Pending /\ log = <<>>

TaskBuildNext ==
    \/ fromCall /\ UNCHANGED <<validationVars, optionVars>>
    \/ mapCall /\ UNCHANGED <<validationVars, optionVars>>
    \/ flatMapCall /\ UNCHANGED <<validationVars, optionVars>>
    \/ fork /\ UNCHANGED <<validationVars, optionVars>>
    \/ OperationSettles /\ UNCHANGED <<validationVars, optionVars>>
    \/ ResumeFrom /\ UNCHANGED <<validationVars, optionVars>>
    \/ ResumeMap /\ UNCHANGED <<validationVars, optionVars>>
    \/ ResumeFlatMap /\ UNCHANGED <<validationVars, optionVars>>
    \/ ReturnFlatMap /\ UNCHANGED <<validationVars, optionVars>>

TaskBuildSpec == TaskBuildInit /\ [][TaskBuildNext]_vars

(***************************************************************************)
(* C11: only fork executes                                                 *)
(***************************************************************************)
\* the events that are invocations of the wrapped operation f
InvocationsOf(f) == {j \in 1..Len(log) : log[j].ev = "invoke" /\ log[j].f = f}

\* C11: building an effect with from, map or flatMap invokes no wrapped operation
\* and no mapping function; each fork(runtime) of an effect composed from one
\* from(f) with any number of map / flatMap steps invokes f exactly once, with
\* that runtime, and every effect a flatMap step produces runs with that runtime.
C11_OnlyForkExecutes ==
    /\ pc \in {"unbuilt", "built"} => (log = <<>> /\ stack = <<>> /\ promise = Pending)
    /\ pc \in {"forked", "done"} =>
        /\ Cardinality(InvocationsOf("op1")) = 1
        /\ \A j \in 1..Len(log) : log[j].ev = "invoke" => log[j].runtime = runtime
        /\ \A i \in 1..Len(stack) : stack[i].runtime = runtime

\* an effect of two steps was forked with the runtime r2 and has resolved after
\* an effect produced by a flatMap step invoked its wrapped operation
C11_Witness ==
    /\ pc = "done" /\ runtime = "r2" /\ Steps(effect) = 2
    /\ \E j \in 1..Len(log) :
        log[j].ev = "invoke" /\ log[j].f = "op2" /\ log[j].runtime = "r2"
    /\ \E j \in 1..Len(log) : log[j].ev = "apply"

(***************************************************************************)
(* C12: the shape of what decode returns                                   *)
(***************************************************************************)
\* the Right array holds, position by position, the decoded value of the input's element
ElementwiseDecoded(s, d, r) ==
    /\ r.k = "array"
    /\ Len(r.e) = Len(d.e)
    /\ \A i \in 1..Len(d.e) : Decode(s.itemSchema, d.e[i]).res = Right(r.e[i])

\* C12: every Left that decode returns, for any schema built from Primitive, Literal,
\* Struct, List and transform, carries a non-empty error list; every Right that
\* List.decode returns is an array of the input's length whose i-th element is the
\* decoded value of the input's i-th element, in the original order.
C12_LeftNonEmptyListInOrder ==
    phase = "decoded" =>
        /\ isLeft(out) => Len(out.left) > 0
        /\ (ListDecoded /\ isRight(out)) => ElementwiseDecoded(schema, input, out.right)

\* a list of three numbers, each differing from its neighbour, decoded to a Right
\* that holds them in the input's order
C12_Witness ==
    /\ ListDecoded /\ isRight(out)
    /\ Len(input.e) = 3
    /\ input.e[1] # input.e[2] /\ input.e[2] # input.e[3]
    /\ out.right.e = input.e

\* a list whose elements fail is decoded to a Left over the elements' errors
C12_WitnessLeft ==
    /\ ListDecoded /\ isLeft(out)
    /\ Len(input.e) = 2 /\ Len(out.left) = 2

====
